---- MODULE Spec2Model ----
(***************************************************************************)
(* Model of the retrieval-and-ranking core of the Edify RAG backend:       *)
(* vector search (vector_db.py), multi-strategy retrieval, the two-pass    *)
(* diversity selector, neighbour expansion, context assembly and response  *)
(* generation (chatbot.py, llm_service.py).                                *)
(*                                                                         *)
(* Scores are integers in thousandths (0.15 is 150).  A text is abstracted *)
(* to a record [fp, len, hits]: fp is its normalised first 100 characters, *)
(* len its length in characters, hits the number of words of the request's *)
(* query that occur in it.  A Python dict is a record; a key that the code *)
(* never sets is a field the record does not have.                         *)
(***************************************************************************)
EXTENDS Integers, Sequences, FiniteSets, TLC

(***************************************************************************)
(* Bounds of the model.                                                    *)
(***************************************************************************)
MaxStored == 3
MaxCap == 2

(***************************************************************************)
(* Generic helpers.                                                        *)
(***************************************************************************)
Min(a, b) == IF a <= b THEN a ELSE b
Max(a, b) == IF a >= b THEN a ELSE b
Clamp01(v) == Max(0, Min(1000, v))

\* dict.get(key, default)
DictGet(d, k, default) == IF k \in DOMAIN d THEN d[k] ELSE default

\* Python's list.sort / sorted: a stable sort.  Before(i, j) says that the
\* key of element i sorts strictly before the key of element j.
StableSort(s, Before(_, _)) ==
    LET n == Len(s)
        pos(i) == 1 + Cardinality({j \in 1..n :
                        Before(j, i) \/ (~Before(i, j) /\ j < i)})
    IN [p \in 1..n |-> s[CHOOSE i \in 1..n : pos(i) = p]]

\* s[:n]
Take(s, n) == SubSeq(s, 1, Min(n, Len(s)))

\* [x for x in s if Keep(x)]
RECURSIVE FilterIdx(_, _, _)
FilterIdx(s, keep, i) ==
    IF i > Len(s) THEN <<>>
    ELSE IF i \in keep THEN <<s[i]>> \o FilterIdx(s, keep, i + 1)
         ELSE FilterIdx(s, keep, i + 1)

RECURSIVE SumSeq(_)
SumSeq(s) == IF s = <<>> THEN 0 ELSE Head(s) + SumSeq(Tail(s))

RECURSIVE Concat(_)
Concat(ss) == IF ss = <<>> THEN <<>> ELSE Head(ss) \o Concat(Tail(ss))

Range(s) == {s[i] : i \in 1..Len(s)}

\* str(n) for a non-negative integer, as its sequence of decimal digits
RECURSIVE Str(_)
Str(n) == IF n < 10 THEN <<n>> ELSE Str(n \div 10) \o <<n % 10>>

\* int(s) for a digit string
RECURSIVE Int_(_)
Int_(s) == IF s = <<>> THEN 0 ELSE 10 * Int_(SubSeq(s, 1, Len(s) - 1)) + s[Len(s)]

\* Python's < on two str values (here digit strings): lexicographic
StrLess(a, b) ==
    \/ \E i \in 1..Min(Len(a), Len(b)) :
          /\ \A j \in 1..(i - 1) : a[j] = b[j]
          /\ a[i] < b[i]
    \/ /\ Len(a) < Len(b)
       /\ \A j \in 1..Len(a) : a[j] = b[j]

(***************************************************************************)
(* Namespaces.                                                             *)
(***************************************************************************)
KB_NAMESPACE_GROUPS ==
    [ns \in {"kb-esp", "kb-psp", "kb-msp", "kb-ssp"} |->
        CASE ns = "kb-esp" -> <<"playgroup", "ik1", "ik2", "ik3">>
          [] ns = "kb-psp" -> <<"grade1", "grade2", "grade3", "grade4", "grade5">>
          [] ns = "kb-msp" -> <<"grade6", "grade7", "grade8", "grade9", "grade10">>
          [] ns = "kb-ssp" -> <<"grade11", "grade12">>]

all_namespaces ==
    <<"kb-psp", "kb-msp", "kb-ssp", "kb-esp",
      "edipedia-k12", "edipedia-preschools", "edipedia-edifyho">>

IsKb(ns) == ns \in {"kb-esp", "kb-psp", "kb-msp", "kb-ssp"}
IsEdipedia(ns) == ns \in {"edipedia-k12", "edipedia-preschools", "edipedia-edifyho"}

(***************************************************************************)
(* Ingestion: the chunk records that the knowledge-base processor stores.  *)
(***************************************************************************)
\* f"{filename}_{chunk_index:03d}"
ChunkIdOf(filename, chunk_index) ==
    filename \o "_" \o (IF chunk_index < 10 THEN "00"
                        ELSE IF chunk_index < 100 THEN "0" ELSE "")
             \o ToString(chunk_index)

\* The metadata of one chunk.  chunk_index is stored as str(chunk_index).
CreateChunkMetadata(chunk_text, file_info, namespace, chunk_index) ==
    [id          |-> ChunkIdOf(file_info.filename, chunk_index),
     chunk_id    |-> ChunkIdOf(file_info.filename, chunk_index),
     text        |-> chunk_text,
     chunk_index |-> Str(chunk_index),
     chunk_length |-> Str(chunk_text.len),
     filename    |-> file_info.blob_name,
     grade       |-> file_info.grade,
     namespace   |-> namespace]

\* The source documents of the model and the stage each one maps to.
FileA == [filename |-> "a.pdf", blob_name |-> "kb/12/grade1/a.pdf", grade |-> "grade1"]
FileB == [filename |-> "b.pdf", blob_name |-> "kb/12/grade6/b.pdf", grade |-> "grade6"]
FileC == [filename |-> "c.pdf", blob_name |-> "edipedia/2025-2026/k12/c.pdf", grade |-> "k12"]
FileD == [filename |-> "d.pdf", blob_name |-> "edipedia/2025-2026/k12/d.pdf", grade |-> "k12"]

\* The chunks ingestion can produce from those documents: position in the
\* document, namespace and text.
Corpus ==
    << CreateChunkMetadata([fp |-> "p1", len |-> 6000,  hits |-> 0],   FileA, "kb-psp", 2),
       CreateChunkMetadata([fp |-> "p2", len |-> 6000,  hits |-> 2], FileA, "kb-psp", 10),
       CreateChunkMetadata([fp |-> "p3", len |-> 300,   hits |-> 0],   FileB, "kb-msp", 1),
       CreateChunkMetadata([fp |-> "p4", len |-> 13000, hits |-> 0],   FileC, "edipedia-k12", 1),
       CreateChunkMetadata([fp |-> "p5", len |-> 300,   hits |-> 2], FileC, "edipedia-k12", 2),
       CreateChunkMetadata([fp |-> "p5", len |-> 300,   hits |-> 2], FileD, "edipedia-k12", 0) >>

\* The cosine score the index reports for each chunk of the corpus and the
\* query of a request: chunks 1 and 4 are close to it, the others are not.
Similarity == <<800, 120, 120, 800, 120, 120>>

\* The cosine scores for the query with the terms of a content type appended
\* to it: the holiday terms bring chunk 3 somewhat closer.
EnhancedSimilarity(search_type) ==
    IF search_type = "HOLIDAY" THEN <<800, 120, 180, 800, 120, 120>>
    ELSE Similarity

(***************************************************************************)
(* vector_db.py: EnhancedVectorDBManager.                                  *)
(* idx is the index: a sequence of vectors [id, score, metadata,           *)
(* namespace], score being the cosine score of the vector for the query.   *)
(* q is the query: [casual, complexity, words, form_trigger, edu_term,     *)
(* typo, core_keywords].  down says that the index call raises.            *)
(***************************************************************************)
\* _extract_text_from_metadata: the first text key whose value is longer
\* than 10 characters, "" (length 0) otherwise
ExtractTextFromMetadata(metadata) ==
    IF "text" \in DOMAIN metadata /\ metadata.text.len > 10
    THEN metadata.text
    ELSE [fp |-> "", len |-> 0, hits |-> 0]

\* pinecone_index.query(top_k = n, namespace = ns): the n best matches
TopMatches(inNs, n) ==
    Take(StableSort(inNs, LAMBDA i, j : inNs[i].score > inNs[j].score), n)

PineconeQuery(idx, ns, n) ==
    TopMatches(FilterIdx(idx, {i \in 1..Len(idx) : idx[i].namespace = ns}, 1), n)

\* The result dict built for each match
FormatMatches(matches, namespace) ==
    [i \in 1..Len(matches) |->
        [text             |-> ExtractTextFromMetadata(matches[i].metadata),
         metadata         |-> matches[i].metadata,
         similarity_score |-> matches[i].score,
         rank             |-> i,
         namespace        |-> namespace,
         search_method    |-> "pinecone_advanced"]]

\* if text and len(text.strip()) > 20
KeepLongText(results) ==
    FilterIdx(results, {i \in 1..Len(results) : results[i].text.len > 20}, 1)

SearchPineconeAdvanced(idx, down, top_k, namespace) ==
    IF down THEN <<>>
    ELSE KeepLongText(FormatMatches(PineconeQuery(idx, namespace, Min(top_k * 2, 50)),
                                    namespace))

\* result['similarity_score'] *= factor ; result['search_method'] = method
Penalised(results, percent, method) ==
    [i \in 1..Len(results) |->
        [results[i] EXCEPT !.similarity_score = (@ * percent) \div 100,
                           !.search_method = method]]

\* for synonym in synonyms[:2]: results.extend(synonym_results)
ExtendPerSynonym(synonym_results) == synonym_results \o synonym_results

\* _educational_keyword_search: two synonym searches for a matched term
EducationalKeywordSearch(idx, down, q, top_k, namespace) ==
    IF q.edu_term
    THEN ExtendPerSynonym(
             Penalised(SearchPineconeAdvanced(idx, down, top_k \div 3, namespace),
                       90, "keyword_expansion"))
    ELSE <<>>

\* _cross_namespace_search: the other namespaces, related ones first
OtherNamespaces(current_namespace) ==
    FilterIdx(all_namespaces,
        {i \in 1..Len(all_namespaces) : all_namespaces[i] # current_namespace}, 1)

Prioritised(others, current_namespace) ==
    IF IsKb(current_namespace)
    THEN FilterIdx(others, {i \in 1..Len(others) : IsKb(others[i])}, 1)
         \o FilterIdx(others, {i \in 1..Len(others) : ~IsKb(others[i])}, 1)
    ELSE IF IsEdipedia(current_namespace)
    THEN FilterIdx(others, {i \in 1..Len(others) : IsEdipedia(others[i])}, 1)
         \o FilterIdx(others, {i \in 1..Len(others) : ~IsEdipedia(others[i])}, 1)
    ELSE others

PriorityNamespaces(current_namespace) ==
    Prioritised(OtherNamespaces(current_namespace), current_namespace)

\* The penalty of a cross-namespace result: 0.92 from a related namespace,
\* 0.85 from any other
CrossPenalty(ns, current_namespace) ==
    IF \/ IsKb(ns) /\ IsKb(current_namespace)
       \/ IsEdipedia(ns) /\ IsEdipedia(current_namespace)
    THEN 92 ELSE 85

CrossResults(cross, ns, current_namespace) ==
    [k \in 1..Len(cross) |->
        [cross[k] EXCEPT
            !.similarity_score = (@ * CrossPenalty(ns, current_namespace)) \div 100,
            !.search_method = "cross_namespace",
            !.namespace = ns]]

CrossFrom(idx, down, top_k, current_namespace, prio) ==
    Concat([i \in 1..Len(prio) |->
        CrossResults(
            SearchPineconeAdvanced(idx, down, Max(1, top_k \div (3 + (i - 1))), prio[i]),
            prio[i], current_namespace)])

CrossNamespaceSearch(idx, down, top_k, current_namespace) ==
    CrossFrom(idx, down, top_k, current_namespace,
              Take(PriorityNamespaces(current_namespace), 6))

\* _fuzzy_educational_search: one search with the corrected query
FuzzyEducationalSearch(idx, down, q, top_k, namespace) ==
    IF q.typo
    THEN Penalised(SearchPineconeAdvanced(idx, down, top_k, namespace), 95, "fuzzy_correction")
    ELSE <<>>

\* _assess_content_quality (a text of at least two sentences that names no
\* educational term; the metadata has no section or document title)
AssessContentQuality(text) ==
    Clamp01(500 + (IF 200 <= text.len /\ text.len <= 1500 THEN 200
                   ELSE IF text.len < 100 THEN -200 ELSE 0) + 100)

\* _deduplicate_and_enhance_results: the first result of each fingerprint
FirstOfFingerprint(results) ==
    FilterIdx(results,
        {i \in 1..Len(results) :
            /\ results[i].text.fp # ""
            /\ results[i].text.len > 20
            /\ \A j \in 1..(i - 1) : results[j].text.fp # results[i].text.fp}, 1)

WithQuality(kept) ==
    [i \in 1..Len(kept) |->
        [text             |-> kept[i].text,
         metadata         |-> kept[i].metadata,
         similarity_score |-> kept[i].similarity_score,
         rank             |-> kept[i].rank,
         namespace        |-> kept[i].namespace,
         search_method    |-> kept[i].search_method,
         chunk_length     |-> kept[i].text.len,
         content_quality  |-> AssessContentQuality(kept[i].text)]]

DeduplicateAndEnhanceResults(results) == WithQuality(FirstOfFingerprint(results))

\* _apply_educational_scoring
EnhancedScore(r) ==
    Clamp01(r.similarity_score
            + Min(100, r.text.hits * 20)
            + (r.content_quality * 5) \div 100
            + (IF r.search_method = "cross_namespace" THEN 0 ELSE 20)
            - (IF r.chunk_length < 100 THEN 50 ELSE 0))

ApplyEducationalScoring(results) ==
    [i \in 1..Len(results) |->
        [text             |-> results[i].text,
         metadata         |-> results[i].metadata,
         similarity_score |-> results[i].similarity_score,
         rank             |-> results[i].rank,
         namespace        |-> results[i].namespace,
         search_method    |-> results[i].search_method,
         chunk_length     |-> results[i].chunk_length,
         content_quality  |-> results[i].content_quality,
         enhanced_score   |-> EnhancedScore(results[i])]]

\* _calculate_relevance_score (content_type general, no OCR)
LengthPenalty(chunk_length) ==
    IF chunk_length < 100 THEN 100
    ELSE IF chunk_length > 1500 THEN 50 ELSE 0

CalculateRelevanceScore(result) ==
    Clamp01(result.similarity_score
            - LengthPenalty(Int_(DictGet(result.metadata, "chunk_length", <<0>>))))

\* _enhance_search_results: the dict handed to the chatbot.  It has no
\* 'id' key and no 'score' key.
EnhanceSearchResults(results) ==
    [i \in 1..Len(results) |->
        [text             |-> results[i].text,
         similarity_score |-> results[i].similarity_score,
         relevance_score  |-> CalculateRelevanceScore(results[i]),
         metadata         |-> results[i].metadata,
         rank             |-> results[i].rank]]

\* _rerank_results: by (relevance_score, similarity_score), descending
Renumbered(reranked) ==
    [i \in 1..Len(reranked) |-> [reranked[i] EXCEPT !.rank = i]]

RerankResults(results) ==
    Renumbered(StableSort(results,
        LAMBDA i, j :
            \/ results[i].relevance_score > results[j].relevance_score
            \/ /\ results[i].relevance_score = results[j].relevance_score
               /\ results[i].similarity_score > results[j].similarity_score))

enable_reranking == TRUE

\* The strategies of search_similar_chunks, each run when the results so
\* far are too few
WithKeywordExpansion(all_results, idx, down, q, top_k, namespace) ==
    all_results \o
    (IF 10 * Len(all_results) < 7 * top_k
     THEN EducationalKeywordSearch(idx, down, q, top_k \div 2, namespace)
     ELSE <<>>)

WithCrossNamespace(all_results, idx, down, q, top_k, namespace) ==
    all_results \o
    (IF Len(all_results) < top_k
     THEN CrossNamespaceSearch(idx, down, top_k \div 3, namespace)
     ELSE <<>>)

WithFuzzyMatching(all_results, idx, down, q, top_k, namespace) ==
    all_results \o
    (IF 10 * Len(all_results) < 8 * top_k
     THEN FuzzyEducationalSearch(idx, down, q, top_k \div 3, namespace)
     ELSE <<>>)

\* sorted(scored_results, key = enhanced_score, reverse = True)[:top_k]
FinalResults(scored_results, top_k) ==
    Take(StableSort(scored_results,
             LAMBDA i, j : scored_results[i].enhanced_score
                           > scored_results[j].enhanced_score), top_k)

MaybeRerank(enhanced_results) ==
    IF enable_reranking /\ Len(enhanced_results) > 1
    THEN RerankResults(enhanced_results)
    ELSE enhanced_results

\* search_similar_chunks
SearchSimilarChunks(idx, down, q, top_k, namespace) ==
    MaybeRerank(EnhanceSearchResults(FinalResults(
        ApplyEducationalScoring(DeduplicateAndEnhanceResults(
            WithFuzzyMatching(
                WithCrossNamespace(
                    WithKeywordExpansion(
                        SearchPineconeAdvanced(idx, down, top_k, namespace),
                        idx, down, q, top_k, namespace),
                    idx, down, q, top_k, namespace),
                idx, down, q, top_k, namespace))),
        top_k)))

(***************************************************************************)
(* chatbot.py: AIChhatbotInterface, retrieval.                             *)
(***************************************************************************)
QueryWords == 4

search_top_k(complexity) ==
    CASE complexity = "SIMPLE" -> 15
      [] complexity = "COMPLEX" -> 25
      [] OTHER -> 20

max_chunks(complexity) ==
    CASE complexity = "SIMPLE" -> 10
      [] complexity = "COMPLEX" -> 15
      [] OTHER -> 12

\* chunk['search_strategy'] = tag
Tagged(results, tag) ==
    [i \in 1..Len(results) |-> ("search_strategy" :> tag) @@ results[i]]

\* all_candidate_chunks.extend([c for c in results if c not in all_candidate_chunks])
ExtendNew(all_candidate_chunks, results) ==
    all_candidate_chunks \o
    FilterIdx(results, {i \in 1..Len(results) :
                           \A k \in 1..Len(all_candidate_chunks) :
                               all_candidate_chunks[k] # results[i]}, 1)

\* The content filter: every candidate gets its enhanced_relevance, and is
\* kept when it reaches the threshold, which rises once 5 are kept.
RECURSIVE ContentFilter(_, _, _)
ContentFilter(candidates, i, relevant_chunks) ==
    IF i > Len(candidates) THEN relevant_chunks
    ELSE LET chunk == candidates[i]
             similarity_score == DictGet(chunk, "similarity_score", 0)
             relevance_score ==
                 similarity_score + (chunk.text.hits * 200) \div QueryWords
             scored == ("enhanced_relevance" :> relevance_score) @@ chunk
             threshold == IF Len(relevant_chunks) < 5 THEN 150 ELSE 200
         IN ContentFilter(candidates, i + 1,
                IF relevance_score >= threshold
                THEN Append(relevant_chunks, scored)
                ELSE relevant_chunks)

\* The strategies _retrieve_relevant_chunks runs for a query; down is the
\* set of those whose index calls raise.
StrategiesOf(q) ==
    IF q.casual \/ q.given = "missing" THEN {}
    ELSE {"PRIMARY"} \cup (IF q.holiday_trigger THEN {"HOLIDAY"} ELSE {})
                     \cup (IF q.form_trigger THEN {"FORM"} ELSE {})
                     \cup (IF q.core_keywords THEN {"KEYWORD"} ELSE {})

\* The index as the query enhanced for a content type sees it
CorpusPos(id) == CHOOSE c \in 1..Len(Corpus) : Corpus[c].id = id

ForEnhancedQuery(idx, search_type) ==
    [i \in 1..Len(idx) |->
        [idx[i] EXCEPT !.score = EnhancedSimilarity(search_type)[CorpusPos(idx[i].id)]]]

\* The candidates of one strategy, marked with it; none when the query does
\* not trigger the strategy.  The primary results carry no mark.
StrategyResults(idx, down, q, namespace, strategy) ==
    CASE strategy = "PRIMARY" ->
             SearchSimilarChunks(idx, "PRIMARY" \in down, q,
                                 search_top_k(q.complexity), namespace)
      [] strategy = "HOLIDAY" /\ q.holiday_trigger ->
             Tagged(SearchSimilarChunks(ForEnhancedQuery(idx, "HOLIDAY"),
                                        "HOLIDAY" \in down, q,
                                        search_top_k(q.complexity), namespace),
                    "HOLIDAY")
      [] strategy = "FORM" /\ q.form_trigger ->
             Tagged(SearchSimilarChunks(ForEnhancedQuery(idx, "FORM"),
                                        "FORM" \in down, q,
                                        search_top_k(q.complexity), namespace),
                    "FORM")
      [] strategy = "KEYWORD" /\ q.core_keywords ->
             Tagged(SearchSimilarChunks(idx, "KEYWORD" \in down, q,
                                        search_top_k(q.complexity) \div 2, namespace),
                    "KEYWORD")
      [] OTHER -> <<>>

\* A strategy whose failure is not absorbed below: the outer handler of
\* _retrieve_relevant_chunks would return the empty list.
WithFormStrategyRaising(all_candidate_chunks, idx, down, q, namespace) ==
    IF q.form_trigger
    THEN IF "FORM" \in down THEN <<>>
         ELSE ExtendNew(all_candidate_chunks,
                  StrategyResults(idx, {}, q, namespace, "FORM"))
    ELSE all_candidate_chunks

\* Strategy 2 (HOLIDAY, then FORM) and strategy 3 of
\* _retrieve_relevant_chunks
WithHolidayStrategy(all_candidate_chunks, idx, down, q, namespace) ==
    ExtendNew(all_candidate_chunks, StrategyResults(idx, down, q, namespace, "HOLIDAY"))

WithFormStrategy(all_candidate_chunks, idx, down, q, namespace) ==
    ExtendNew(all_candidate_chunks, StrategyResults(idx, down, q, namespace, "FORM"))

WithKeywordStrategy(all_candidate_chunks, idx, down, q, namespace) ==
    ExtendNew(all_candidate_chunks, StrategyResults(idx, down, q, namespace, "KEYWORD"))

\* relevant_chunks.sort(key = enhanced_relevance, reverse = True)
SortedByRelevance(relevant_chunks) ==
    StableSort(relevant_chunks,
        LAMBDA i, j : relevant_chunks[i].enhanced_relevance
                      > relevant_chunks[j].enhanced_relevance)

\* The content filter, the sort and the cut that follow the merge
FilteredAndCut(all_candidate_chunks, q) ==
    Take(SortedByRelevance(ContentFilter(all_candidate_chunks, 1, <<>>)),
         max_chunks(q.complexity))

\* _retrieve_relevant_chunks
RetrieveRelevantChunks(idx, down, q, namespace) ==
    FilteredAndCut(
        WithKeywordStrategy(
            WithFormStrategy(
                WithHolidayStrategy(
                    StrategyResults(idx, down, q, namespace, "PRIMARY"),
                    idx, down, q, namespace),
                idx, down, q, namespace),
            idx, down, q, namespace),
        q)

\* The same retrieval with the strategies executed and merged in another
\* order.
RECURSIVE MergeInOrder(_, _, _, _, _, _)
MergeInOrder(idx, down, q, namespace, order, i) ==
    IF i = 0 THEN <<>>
    ELSE ExtendNew(MergeInOrder(idx, down, q, namespace, order, i - 1),
                   StrategyResults(idx, down, q, namespace, order[i]))

RetrieveInOrder(idx, down, q, namespace, order) ==
    FilteredAndCut(MergeInOrder(idx, down, q, namespace, order, Len(order)), q)

\* Steps 4 and 5 of process_query: the namespaces of the request are searched
\* in order; a kb-* namespace is searched once per grade of its group and
\* each pass keeps the chunks of that grade.
FilterByGroup(chunks, group_grades) ==
    Concat([g \in 1..Len(group_grades) |->
        FilterIdx(chunks,
            {i \in 1..Len(chunks) :
                DictGet(chunks[i].metadata, "grade", "") = group_grades[g]}, 1)])

RetrieveNamespace(idx, down, q, namespace) ==
    IF namespace \in DOMAIN KB_NAMESPACE_GROUPS
    THEN FilterByGroup(RetrieveRelevantChunks(idx, down, q, namespace),
                       KB_NAMESPACE_GROUPS[namespace])
    ELSE RetrieveRelevantChunks(idx, down, q, namespace)

AllRelevantChunks(idx, down, q, search_namespaces) ==
    Concat([n \in 1..Len(search_namespaces) |->
               RetrieveNamespace(idx, down, q, search_namespaces[n])])

(***************************************************************************)
(* chatbot.py: the deduplicator / diversity selector of process_query.     *)
(***************************************************************************)
ChunkId(chunk) == DictGet(chunk, "id", "")
ChunkScore(chunk) == DictGet(chunk, "score", 0)
ChunkFilename(chunk) == DictGet(DictGet(chunk, "metadata", <<>>), "filename", "unknown")

SortedByScore(all_relevant_chunks) ==
    StableSort(all_relevant_chunks,
        LAMBDA i, j : ChunkScore(all_relevant_chunks[i]) > ChunkScore(all_relevant_chunks[j]))

\* First pass: one chunk per unseen id and unseen file, until cap is reached.
\* The result is [chunks, seen_ids].
RECURSIVE Pass1(_, _, _, _, _, _)
Pass1(sorted, i, seen_ids, file_sources, relevant_chunks, cap) ==
    IF i > Len(sorted) THEN [chunks |-> relevant_chunks, seen_ids |-> seen_ids]
    ELSE LET chunk == sorted[i]
         IN IF ChunkId(chunk) \notin seen_ids /\ ChunkFilename(chunk) \notin file_sources
            THEN IF Len(relevant_chunks) + 1 >= cap
                 THEN [chunks |-> Append(relevant_chunks, chunk),
                       seen_ids |-> seen_ids \cup {ChunkId(chunk)}]
                 ELSE Pass1(sorted, i + 1, seen_ids \cup {ChunkId(chunk)},
                            file_sources \cup {ChunkFilename(chunk)},
                            Append(relevant_chunks, chunk), cap)
            ELSE Pass1(sorted, i + 1, seen_ids, file_sources, relevant_chunks, cap)

\* Second pass: the best chunks of unseen id, until the remaining slots are used.
RECURSIVE Pass2(_, _, _, _, _)
Pass2(sorted, i, seen_ids, relevant_chunks, remaining_slots) ==
    IF i > Len(sorted) THEN relevant_chunks
    ELSE LET chunk == sorted[i]
         IN IF ChunkId(chunk) \notin seen_ids
            THEN IF remaining_slots - 1 <= 0
                 THEN Append(relevant_chunks, chunk)
                 ELSE Pass2(sorted, i + 1, seen_ids \cup {ChunkId(chunk)},
                            Append(relevant_chunks, chunk), remaining_slots - 1)
            ELSE Pass2(sorted, i + 1, seen_ids, relevant_chunks, remaining_slots)

\* The second pass runs when the first left slots free.
Backfill(sorted, p1, cap) ==
    IF cap - Len(p1.chunks) > 0
    THEN Pass2(sorted, 1, p1.seen_ids, p1.chunks, cap - Len(p1.chunks))
    ELSE p1.chunks

\* The else branch: both passes over the candidates sorted by score
TwoPass(sorted, cap) == Backfill(sorted, Pass1(sorted, 1, {}, {}, <<>>, cap), cap)

\* The selector with the admin branch lost: every role is deduplicated.
SelectChunksAlwaysDedup(all_relevant_chunks, role, cap) ==
    TwoPass(SortedByScore(all_relevant_chunks), cap)

\* The selector with the role test inverted: admin is deduplicated and
\* every other role gets the whole pool.
SelectChunksRoleInverted(all_relevant_chunks, role, cap) ==
    IF role # "admin"
    THEN SortedByScore(all_relevant_chunks)
    ELSE TwoPass(SortedByScore(all_relevant_chunks), cap)

\* The selector: relevant_chunks from all_relevant_chunks.
SelectChunks(all_relevant_chunks, role, cap) ==
    IF role = "admin"
    THEN SortedByScore(all_relevant_chunks)
    ELSE TwoPass(SortedByScore(all_relevant_chunks), cap)

(***************************************************************************)
(* chatbot.py: neighbour expansion and context assembly.                   *)
(***************************************************************************)
db_type == "pinecone"
ExpandLimit == 15
max_context_for_comprehensive == 12000

\* get_context_chunks: the chunks of the same document whose chunk_index is
\* within context_size of the target's
NeighbourChunks(found) ==
    [i \in 1..Len(found) |->
        [text |-> found[i].metadata.text, metadata |-> found[i].metadata]]

AroundTarget(idx, target, chunk_id, context_size) ==
    IF target = <<>> THEN <<>>
    ELSE NeighbourChunks(FilterIdx(idx,
             {i \in 1..Len(idx) :
                 /\ idx[i].metadata.filename = target[1].metadata.filename
                 /\ idx[i].id # chunk_id
                 /\ Int_(idx[i].metadata.chunk_index)
                    - Int_(target[1].metadata.chunk_index) <= context_size
                 /\ Int_(target[1].metadata.chunk_index)
                    - Int_(idx[i].metadata.chunk_index) <= context_size}, 1))

\* get_chunk_by_id has a branch for chromadb and for faiss only: with the
\* pinecone index it finds no chunk, and get_context_chunks returns [].
GetContextChunks(idx, chunk_id, context_size) ==
    IF db_type = "pinecone" THEN <<>>
    ELSE AroundTarget(idx, FilterIdx(idx, {i \in 1..Len(idx) : idx[i].id = chunk_id}, 1),
                      chunk_id, context_size)

\* neighbors of one chunk: none when the chunk has no metadata chunk_id
NeighborsOf(idx, chunk_id) ==
    IF chunk_id = "" THEN <<>> ELSE GetContextChunks(idx, chunk_id, 1)

\* _expand_context
RECURSIVE ExpandFrom(_, _, _, _)
ExpandFrom(idx, chunks, i, expanded_chunks) ==
    IF i > Len(chunks) THEN expanded_chunks
    ELSE ExpandFrom(idx, chunks, i + 1,
             ExtendNew(expanded_chunks,
                 NeighborsOf(idx, DictGet(DictGet(chunks[i], "metadata", <<>>),
                                          "chunk_id", ""))))

ExpandContext(idx, chunks) == Take(ExpandFrom(idx, chunks, 1, chunks), ExpandLimit)

\* Step 3 of process_query: expansion runs when it is enabled and the
\* selector returned fewer than cap chunks.
enable_context_expansion == TRUE

MaybeExpand(idx, relevant_chunks, cap) ==
    IF enable_context_expansion /\ Len(relevant_chunks) < cap
    THEN ExpandContext(idx, relevant_chunks)
    ELSE relevant_chunks

\* _sort_chunks_for_context: groups in order of first appearance, each group
\* sorted by metadata['chunk_index'], compared as the stored values (str).
SortChunksForContext(chunks) ==
    LET n == Len(chunks)
        firstOf(i) == CHOOSE k \in 1..n :
                         /\ ChunkFilename(chunks[k]) = ChunkFilename(chunks[i])
                         /\ \A m \in 1..(k - 1) :
                               ChunkFilename(chunks[m]) # ChunkFilename(chunks[i])
        key(i) == DictGet(DictGet(chunks[i], "metadata", <<>>), "chunk_index", <<0>>)
        before(i, j) == \/ firstOf(i) < firstOf(j)
                        \/ firstOf(i) = firstOf(j) /\ StrLess(key(i), key(j))
    IN StableSort(chunks, before)

\* The loop of _optimize_context_for_llm: the chunks appended to
\* context_parts.  Only the text of a chunk counts toward current_length.
RECURSIVE ContextParts(_, _, _, _)
ContextParts(sorted_chunks, i, context_parts, current_length) ==
    IF i > Len(sorted_chunks) THEN context_parts
    ELSE LET chunk_length == sorted_chunks[i].text.len
         IN IF current_length + chunk_length > max_context_for_comprehensive
               /\ context_parts # <<>>
            THEN context_parts
            ELSE ContextParts(sorted_chunks, i + 1,
                              Append(context_parts, sorted_chunks[i]),
                              current_length + chunk_length)

\* _optimize_context_for_llm: the context, as the chunks it is made of
OptimizeContextForLLM(chunks) ==
    ContextParts(SortChunksForContext(chunks), 1, <<>>, 0)

\* len(final_context): each part is "Source: " + filename + sep + text + sep
\* and the parts are joined by sep, sep being the two characters of "\\n".
SepLen == 2

FormattedChunkLen(chunk) ==
    Len("Source: ") + Len(ChunkFilename(chunk)) + SepLen + chunk.text.len + SepLen

ContextLen(context_parts) ==
    SumSeq([i \in 1..Len(context_parts) |-> FormattedChunkLen(context_parts[i])])
    + (IF Len(context_parts) > 1 THEN SepLen * (Len(context_parts) - 1) ELSE 0)

(***************************************************************************)
(* llm_service.py and the generation step of chatbot.py.                   *)
(* An answer text is [kind, exc]: kind names the template or source of the *)
(* text, exc says that str(e) of a caught exception is interpolated in it. *)
(* groq is what the API call yields: "valid" (text that passes             *)
(* _is_valid_response), "invalid" (text that fails it) or "none" (the call *)
(* raised, timed out or returned nothing).                                 *)
(***************************************************************************)
Text(kind, exc) == [kind |-> kind, exc |-> exc]

\* _generate_intelligent_fallback_response: a fixed sentence
GenerateIntelligentFallbackResponse(context) ==
    [response |-> Text("rephrase_request", FALSE), reasoning |-> "none"]

\* LLMService.generate_response
LLMGenerateResponse(groq_available, groq, context) ==
    IF groq_available /\ groq = "valid"
    THEN [response |-> Text("llm_answer", FALSE),
          reasoning |-> "llm_reasoning",
          model_used |-> "openai/gpt-oss-120b"]
    ELSE LET fallback_response == GenerateIntelligentFallbackResponse(context)
         IN [response |-> fallback_response.response,
             reasoning |-> fallback_response.reasoning,
             model_used |-> "intelligent_fallback"]

\* AIChhatbotInterface._generate_fallback_response: the first substantive
\* line(s) of the context, cut at 400 characters
GenerateFallbackResponse(context) ==
    IF context = <<>>
    THEN Text("no_specific_information", FALSE)
    ELSE Text("context_extraction", FALSE)

\* _generate_llm_response: [response, reasoning, model_used]
FromLLMResponse(llm_attached, llm_response, context) ==
    IF llm_attached /\ llm_response.response # Text("", FALSE)
    THEN [response   |-> llm_response.response,
          reasoning  |-> llm_response.reasoning,
          model_used |-> llm_response.model_used]
    ELSE [response   |-> GenerateFallbackResponse(context),
          reasoning  |-> "document_based_analysis",
          model_used |-> "enhanced_fallback"]

GenerateLLMResponse(llm_attached, groq_available, groq, context) ==
    FromLLMResponse(llm_attached, LLMGenerateResponse(groq_available, groq, context),
                    context)

\* _calculate_confidence (thousandths)
RelevanceScores(chunks) ==
    [i \in 1..Len(chunks) |->
        DictGet(chunks[i], "enhanced_relevance",
                DictGet(chunks[i], "similarity_score", 0))]

\* The step on avg_relevance = total / n
BaseConfidence(total, n, query_complexity) ==
    CASE query_complexity = "SIMPLE" -> (IF total > 700 * n THEN 800 ELSE 600)
      [] query_complexity = "MODERATE" -> (IF total > 600 * n THEN 700 ELSE 500)
      [] OTHER -> (IF total > 500 * n THEN 600 ELSE 400)

ConfidenceFrom(relevance_scores, query_complexity) ==
    Min(Max(BaseConfidence(SumSeq(relevance_scores), Len(relevance_scores),
                           query_complexity)
            + (IF Len(relevance_scores) >= 5 THEN 100 ELSE 0), 100), 1000)

\* An estimate that reports 0 for an empty list
CalculateConfidenceZeroIfEmpty(chunks, query_complexity) ==
    IF chunks = <<>> THEN 0
    ELSE ConfidenceFrom(RelevanceScores(chunks), query_complexity)

CalculateConfidence(chunks, query_complexity) ==
    IF chunks = <<>> THEN 300
    ELSE ConfidenceFrom(RelevanceScores(chunks), query_complexity)

(***************************************************************************)
(* chatbot.py: process_query.                                              *)
(***************************************************************************)
\* The methods process_query calls on self that class AIChhatbotInterface
\* defines.  _generate_no_results_response is defined on
\* AIChildrensChatbotInterface only, so the call raises AttributeError.
NoResultsResponseDefined == FALSE

\* The dict returned by the except branch of process_query
ErrorResponse ==
    [response    |-> Text("error_processing_query", TRUE),
     chunks_used |-> 0,
     confidence  |-> 0,
     model_used  |-> "none",
     error       |-> TRUE]

\* _generate_no_results_response for a query that is not a follow-up
GenerateNoResultsResponse ==
    [response    |-> Text("no_results", FALSE),
     chunks_used |-> 0,
     confidence  |-> 0,
     model_used  |-> "none",
     error       |-> FALSE]

CasualResponse ==
    [response    |-> Text("casual", FALSE),
     reasoning   |-> "casual_conversation_detected",
     chunks_used |-> 0,
     confidence  |-> 1000,
     model_used  |-> "casual_conversation_handler",
     error       |-> FALSE]

\* The result dict of an answered query.  gen is what _generate_llm_response
\* returned and left in self._last_reasoning and self._last_model_used.
AnsweredResult(gen, relevant_chunks, query_complexity) ==
    [response    |-> gen.response,
     reasoning   |-> gen.reasoning,
     chunks_used |-> Len(relevant_chunks),
     confidence  |-> CalculateConfidence(relevant_chunks, query_complexity),
     model_used  |-> gen.model_used,
     error       |-> FALSE]

\* Steps 4 to 6 of the answer: context, generation, result
AnswerFrom(llm_attached, groq_available, r, pool, selected, relevant_chunks, context) ==
    [path     |-> "answered",
     pool     |-> pool,
     selected |-> selected,
     used     |-> relevant_chunks,
     context  |-> context,
     result   |-> AnsweredResult(
                      GenerateLLMResponse(llm_attached, groq_available, r.groq,
                                          context),
                      relevant_chunks, r.query.complexity)]

AfterExpansion(llm_attached, groq_available, r, pool, selected, relevant_chunks) ==
    AnswerFrom(llm_attached, groq_available, r, pool, selected, relevant_chunks,
               OptimizeContextForLLM(relevant_chunks))

\* After the selector: no chunk leads to _generate_no_results_response, and
\* otherwise to expansion, context assembly and generation.
AfterSelection(idx, cap, llm_attached, groq_available, r, pool, relevant_chunks) ==
    IF relevant_chunks = <<>>
    THEN [path     |-> "no_results",
          pool     |-> pool,
          selected |-> relevant_chunks,
          used     |-> <<>>,
          context  |-> <<>>,
          result   |-> IF NoResultsResponseDefined
                       THEN GenerateNoResultsResponse
                       ELSE ErrorResponse]
    ELSE AfterExpansion(llm_attached, groq_available, r, pool, relevant_chunks,
                        MaybeExpand(idx, relevant_chunks, cap))

AfterRetrieval(idx, cap, llm_attached, groq_available, r, all_relevant_chunks) ==
    AfterSelection(idx, cap, llm_attached, groq_available, r, all_relevant_chunks,
                   SelectChunks(all_relevant_chunks, r.role, cap))

\* process_query(user_query, namespaces, role) on index idx with
\* max_context_chunks = cap: every intermediate value and the result.
ProcessQuery(idx, cap, llm_attached, groq_available, r) ==
    IF r.query.casual
    THEN [path |-> "casual", pool |-> <<>>, selected |-> <<>>, used |-> <<>>,
          context |-> <<>>, result |-> CasualResponse]
    ELSE AfterRetrieval(idx, cap, llm_attached, groq_available, r,
             AllRelevantChunks(idx, r.down, r.query, r.namespaces))

(***************************************************************************)
(* The state machine.                                                      *)
(*   index   the vectors stored in the Pinecone index                      *)
(*   config  what construction fixed: max_context_chunks, whether an LLM   *)
(*           service is attached, whether its Groq client is available     *)
(*   pc      "idle", or "done" once a request has been answered            *)
(*   req     the request being answered                                    *)
(*   out     what process_query computed for it                            *)
(*   last    self._last_reasoning and self._last_model_used of the one     *)
(*           chatbot instance                                              *)
(*   threads the requests being served by concurrent worker threads        *)
(*   runner  the bulk ingestion runner: its progress files on disk and the  *)
(*           progress tracker and file list of the run in progress         *)
(***************************************************************************)
VARIABLES index, config, pc, req, out, last, threads, runner

vars == <<index, config, pc, req, out, last, threads, runner>>

\* The attributes are not set at construction: getattr gives its defaults.
NoLast == [reasoning |-> "", model_used |-> "enhanced_fallback"]

\* What an answered request leaves in the attributes
LastAfter(l, o) ==
    IF o.path = "answered"
    THEN [reasoning |-> o.result.reasoning, model_used |-> o.result.model_used]
    ELSE l

NoRunner == [none |-> TRUE]
NoReq == [none |-> TRUE]
NoOut == [none |-> TRUE]

\* The queries of the model: a greeting, one question of each complexity
\* class (the MODERATE one names a report, a FORM trigger word), the empty
\* string, and a request body that carries no message at all.  The empty
\* string matches no casual pattern and has 0 words, which is SIMPLE.
Queries ==
    { [given |-> "text", casual |-> TRUE,  complexity |-> "SIMPLE",
       form_trigger |-> FALSE, holiday_trigger |-> FALSE, edu_term |-> FALSE, typo |-> FALSE,
       core_keywords |-> FALSE],
      [given |-> "text", casual |-> FALSE, complexity |-> "SIMPLE",
       form_trigger |-> FALSE, holiday_trigger |-> FALSE, edu_term |-> FALSE, typo |-> FALSE,
       core_keywords |-> FALSE],
      [given |-> "text", casual |-> FALSE, complexity |-> "MODERATE",
       form_trigger |-> TRUE, holiday_trigger |-> FALSE, edu_term |-> FALSE, typo |-> FALSE,
       core_keywords |-> FALSE],
      [given |-> "text", casual |-> FALSE, complexity |-> "COMPLEX",
       form_trigger |-> FALSE, holiday_trigger |-> FALSE, edu_term |-> TRUE, typo |-> TRUE,
       core_keywords |-> FALSE],
      [given |-> "empty", casual |-> FALSE, complexity |-> "SIMPLE",
       form_trigger |-> FALSE, holiday_trigger |-> FALSE, edu_term |-> FALSE, typo |-> FALSE,
       core_keywords |-> FALSE],
      [given |-> "missing", casual |-> FALSE, complexity |-> "SIMPLE",
       form_trigger |-> FALSE, holiday_trigger |-> FALSE, edu_term |-> FALSE, typo |-> FALSE,
       core_keywords |-> FALSE] }

NamespaceLists ==
    { <<"kb-psp">>, <<"edipedia-k12">>, <<"kb-msp", "edipedia-k12">> }

Roles == {"admin", "teacher"}

Configs ==
    { c \in [cap : 1..MaxCap, llm_attached : BOOLEAN, groq_available : BOOLEAN] :
        c.groq_available => c.llm_attached }

\* The two chat routes.  mobile_chat passes no role to process_query; its
\* requests are drawn with one namespace list.
Endpoints == {"chat", "mobile_chat"}

Requests(c) ==
    { r \in [endpoint : Endpoints, query : Queries, role : Roles \cup {"none"},
             namespaces : NamespaceLists,
             down : SUBSET {"PRIMARY", "FORM", "KEYWORD"},
             groq : {"valid", "invalid", "none"}] :
        /\ r.down \subseteq StrategiesOf(r.query)
        /\ ~c.groq_available => r.groq = "none"
        /\ r.endpoint = "mobile_chat" <=> r.role = "none"
        /\ r.endpoint = "mobile_chat" => r.namespaces = <<"edipedia-k12">> }

\* The 400 response of a route for a body without a message; process_query
\* is not called.
MessageRequired ==
    [path |-> "rejected", pool |-> <<>>, selected |-> <<>>, used |-> <<>>,
     context |-> <<>>,
     result |-> [response    |-> Text("message_content_is_required", FALSE),
                 chunks_used |-> 0,
                 confidence  |-> 0,
                 model_used  |-> "none",
                 error       |-> TRUE]]

\* The index as a query sees it: hits counts the words of the query that
\* occur in a text, and the empty query has no word.
SeenBy(q, idx) ==
    IF q.given = "empty"
    THEN [i \in 1..Len(idx) |-> [idx[i] EXCEPT !.metadata.text.hits = 0]]
    ELSE idx

\* chat and mobile_chat: the message is taken from the body and handed to
\* process_query as it is.
HandleChat(idx, c, r) ==
    IF r.query.given = "missing"
    THEN MessageRequired
    ELSE ProcessQuery(SeenBy(r.query, idx), c.cap, c.llm_attached,
                      c.groq_available, r)

Init ==
    /\ index = <<>>
    /\ config \in Configs
    /\ pc = "idle"
    /\ req = NoReq
    /\ out = NoOut
    /\ last = NoLast
    /\ threads = <<>>
    /\ runner = NoRunner

\* _upload_to_pinecone: the vector of one chunk, its metadata being the
\* chunk without 'id'.  Chunks are upserted in corpus order.
UploadVector(chunk, sim) ==
    [id        |-> chunk.id,
     score     |-> sim,
     metadata  |-> [k \in DOMAIN chunk \ {"id"} |-> chunk[k]],
     namespace |-> chunk.namespace]

UploadToPinecone ==
    /\ pc = "idle"
    /\ Len(index) < MaxStored
    /\ \E c \in 1..Len(Corpus) :
          /\ \A k \in 1..Len(index) :
                \E b \in 1..(c - 1) : index[k].id = Corpus[b].id
          /\ index' = Append(index, UploadVector(Corpus[c], Similarity[c]))
    /\ UNCHANGED <<config, pc, req, out, last, threads, runner>>

\* One request: the route and process_query, from entry to return.
Chat ==
    /\ pc = "idle"
    /\ \E r \in Requests(config) :
          /\ req' = r
          /\ out' = HandleChat(index, config, r)
    /\ last' = LastAfter(last, out')
    /\ pc' = "done"
    /\ UNCHANGED <<index, config, threads, runner>>

\* The response has been returned; the next request starts afresh.
Finish ==
    /\ pc = "done"
    /\ pc' = "idle"
    /\ req' = NoReq
    /\ out' = NoOut
    /\ UNCHANGED <<index, config, last, threads, runner>>

Next == UploadToPinecone \/ Chat \/ Finish

Spec == Init /\ [][Next]_vars

(***************************************************************************)
(* Concurrent requests.  app.run serves each request on its own thread     *)
(* (Flask's default), and every thread calls process_query on the one      *)
(* chatbot instance.  A thread's steps are the points where process_query  *)
(* touches the instance attributes: _generate_llm_response writes          *)
(* _last_reasoning and _last_model_used, and the result dict is built      *)
(* later from getattr(self, '_last_reasoning') and '_last_model_used'.     *)
(***************************************************************************)
Threads == {"t1", "t2"}

\* The requests of the concurrent threads: teacher questions on one
\* namespace, no index failure.
ConcRequests(c) ==
    { r \in Requests(c) :
        /\ r.endpoint = "chat" /\ r.role = "teacher"
        /\ r.namespaces = <<"kb-psp">>
        /\ r.down = {}
        /\ r.query.given = "text" /\ ~r.query.casual }

\* The index after the first MaxStored chunks of the corpus were uploaded
StoredPrefix ==
    [c \in 1..Min(MaxStored, Len(Corpus)) |-> UploadVector(Corpus[c], Similarity[c])]

ConcInit ==
    /\ index = StoredPrefix
    /\ config \in Configs
    /\ pc = "idle"
    /\ req = NoReq
    /\ out = NoOut
    /\ last = NoLast
    /\ threads = [t \in Threads |-> [pc |-> "idle"]]
    /\ runner = NoRunner

\* Steps 0 to 5 of process_query: everything up to the assembled context.
\* A request that is not answered returns without touching the attributes.
Started(r, o) ==
    IF o.path = "answered"
    THEN [pc |-> "retrieved", req |-> r, context |-> o.context]
    ELSE [pc |-> "done", req |-> r, out |-> o]

Receive(t) ==
    /\ threads[t].pc = "idle"
    /\ \E r \in ConcRequests(config) :
          threads' = [threads EXCEPT ![t] = Started(r, HandleChat(index, config, r))]
    /\ UNCHANGED <<index, config, pc, req, out, last, runner>>

\* Step 6: _generate_llm_response stores reasoning and model in the
\* attributes of the instance and returns the response text.
Generated(th, gen) ==
    [pc |-> "generated", req |-> th.req, response |-> gen.response]

Generate(t) ==
    /\ threads[t].pc = "retrieved"
    /\ threads' = [threads EXCEPT ![t] =
                      Generated(@, GenerateLLMResponse(config.llm_attached,
                                        config.groq_available, @.req.groq, @.context))]
    /\ last' = LastAfter(last,
                   [path |-> "answered",
                    result |-> GenerateLLMResponse(config.llm_attached,
                                   config.groq_available, threads[t].req.groq,
                                   threads[t].context)])
    /\ UNCHANGED <<index, config, pc, req, out, runner>>

\* Step 7 and the result dict: reasoning and model_used are read back from
\* the attributes.
ResultWith(o, response, l) ==
    [o EXCEPT !.result.response = response,
              !.result.reasoning = l.reasoning,
              !.result.model_used = l.model_used]

Respond(t) ==
    /\ threads[t].pc = "generated"
    /\ threads' = [threads EXCEPT ![t] =
                      [pc |-> "done", req |-> @.req,
                       out |-> ResultWith(HandleChat(index, config, @.req),
                                          @.response, last)]]
    /\ UNCHANGED <<index, config, pc, req, out, last, runner>>

\* The response has been sent; the thread takes the next request.
Return(t) ==
    /\ threads[t].pc = "done"
    /\ threads' = [threads EXCEPT ![t] = [pc |-> "idle"]]
    /\ UNCHANGED <<index, config, pc, req, out, last, runner>>

ConcNext == \E t \in Threads : Receive(t) \/ Generate(t) \/ Respond(t) \/ Return(t)

ConcSpec == ConcInit /\ [][ConcNext]_vars

(***************************************************************************)
(* Retrieval on its own: _retrieve_relevant_chunks for a query and a       *)
(* namespace, as the code merges its strategies and with the strategies    *)
(* merged in another order.                                                *)
(***************************************************************************)
\* A question that names a festival and a report triggers both content
\* types of strategy 2.
FestivalReportQuery ==
    [given |-> "text", casual |-> FALSE, complexity |-> "MODERATE",
     form_trigger |-> TRUE, holiday_trigger |-> TRUE, edu_term |-> FALSE,
     typo |-> FALSE, core_keywords |-> FALSE]

RetrievalQueries ==
    {q \in Queries : q.given = "text" /\ ~q.casual} \cup {FestivalReportQuery}

\* The orders in which the three strategies a query can trigger may run
Orders ==
    { <<"PRIMARY", "HOLIDAY", "FORM">>, <<"PRIMARY", "FORM", "HOLIDAY">>,
      <<"HOLIDAY", "PRIMARY", "FORM">>, <<"HOLIDAY", "FORM", "PRIMARY">>,
      <<"FORM", "PRIMARY", "HOLIDAY">>, <<"FORM", "HOLIDAY", "PRIMARY">> }

RetrievalInit ==
    /\ index = <<>>
    /\ config = [cap |-> 1, llm_attached |-> FALSE, groq_available |-> FALSE]
    /\ pc = "idle"
    /\ req = NoReq
    /\ out = NoOut
    /\ last = NoLast
    /\ threads = <<>>
    /\ runner = NoRunner

\* One call of _retrieve_relevant_chunks
Retrieve ==
    /\ pc = "idle"
    /\ \E q \in RetrievalQueries, namespace \in {"kb-psp", "kb-msp", "edipedia-k12"},
          order \in Orders :
          /\ req' = [query |-> q, namespace |-> namespace, order |-> order]
          /\ out' = [returned  |-> RetrieveRelevantChunks(index, {}, q, namespace),
                     reordered |-> RetrieveInOrder(index, {}, q, namespace, order)]
    /\ pc' = "done"
    /\ UNCHANGED <<index, config, last, threads, runner>>

RetrievalNext == UploadToPinecone \/ Retrieve \/ Finish

RetrievalSpec == RetrievalInit /\ [][RetrievalNext]_vars

(***************************************************************************)
(* chatbot.py: follow-up detection.                                        *)
(* A query is [text, words, chars, example, different, detail]: its text,  *)
(* len(query.split()), len(query.strip()) and whether it holds one of the  *)
(* words of each focus list.  A message is [role, chars], chars being the  *)
(* stripped length of its text.  embedding is the embedding provider:      *)
(* "absent", "raising", or "ok" with the cosine similarities (thousandths) *)
(* of the query to the previous question and to the previous response.     *)
(* Confidence is in units of 1/100000, thresholds in thousandths.          *)
(***************************************************************************)
MaxMessages == 8

NotFollowUp == [is_follow_up |-> FALSE, follow_up_context |-> [none |-> TRUE]]

\* for msg in reversed(messages): the most recent assistant message (0: none)
LastAssistant(messages) ==
    IF \E i \in 1..Len(messages) : messages[i].role = "assistant"
    THEN CHOOSE i \in 1..Len(messages) :
            /\ messages[i].role = "assistant"
            /\ \A j \in (i + 1)..Len(messages) : messages[j].role # "assistant"
    ELSE 0

\* ... and the nearest user message before it (0: none)
LastUserBefore(messages, a) ==
    IF \E i \in 1..(a - 1) : messages[i].role = "user"
    THEN CHOOSE i \in 1..(a - 1) :
            /\ messages[i].role = "user"
            /\ \A j \in (i + 1)..(a - 1) : messages[j].role # "user"
    ELSE 0

\* An exchange taken from the history without the guards of the detector
PreviousExchangeUnguarded(messages) ==
    [assistant |-> LastAssistant(messages), user |-> LastAssistant(messages)]

\* The guard on the history and the search for the previous exchange
PreviousExchange(messages) ==
    IF messages = <<>> \/ Len(messages) < 2
    THEN [assistant |-> 0, user |-> 0]
    ELSE [assistant |-> LastAssistant(messages),
          user      |-> LastUserBefore(messages, LastAssistant(messages))]

\* conversation_bonus = min(0.2, conversation_length * 0.03), thousandths
ConversationBonus(conversation_length) == Min(200, conversation_length * 30)

\* complexity_factor, in tenths
ComplexityFactor(current_query) ==
    IF current_query.words <= 5 THEN 12
    ELSE IF current_query.words <= 10 THEN 11 ELSE 10

\* (base_score + topic_continuity + context_depth + conversation_bonus)
\* * complexity_factor, clamped to [0, 1]
ContinuityScore(q_similarity, r_similarity, current_query, conversation_length) ==
    Min(100000, Max(0,
        (7 * Max(q_similarity, r_similarity) + 2 * q_similarity + r_similarity
         + 10 * ConversationBonus(conversation_length))
        * ComplexityFactor(current_query)))

\* A continuity that would count the conversation bonus without embeddings
ContinuityWithoutEmbeddings(current_query, embedding, conversation_length) ==
    IF embedding.state = "ok"
    THEN ContinuityScore(embedding.q_similarity, embedding.r_similarity,
                         current_query, conversation_length)
    ELSE ContinuityScore(0, 0, current_query, conversation_length)

\* _calculate_conversation_continuity: 0.0 without an embedding model and
\* when a call raises
CalculateConversationContinuity(current_query, embedding, conversation_length) ==
    IF embedding.state = "ok"
    THEN ContinuityScore(embedding.q_similarity, embedding.r_similarity,
                         current_query, conversation_length)
    ELSE 0

\* A threshold that rises with the length of the conversation
FinalThresholdRising(message_count) == 250 - 150 + Min(150, message_count * 20)

\* final_threshold = base_threshold - min(0.15, len(messages) * 0.02)
FinalThreshold(message_count) == 250 - Min(150, message_count * 20)

\* _identify_query_focus_dynamic
IdentifyQueryFocusDynamic(query) ==
    IF query.words <= 3 THEN "clarification"
    ELSE IF query.words <= 6 THEN "elaboration"
    ELSE IF query.example THEN "examples"
    ELSE IF query.different THEN "alternatives"
    ELSE IF query.detail THEN "details"
    ELSE "general_expansion"

\* The decision and the context dict of a positive detection
FollowUpDecision(query, conversation_length, follow_up_confidence) ==
    IF follow_up_confidence >= 100 * FinalThreshold(conversation_length)
    THEN [is_follow_up |-> TRUE,
          follow_up_context |->
              [confidence          |-> follow_up_confidence,
               detection_reason    |-> "semantic_continuity",
               conversation_length |-> conversation_length,
               query_focus         |-> IdentifyQueryFocusDynamic(query)]]
    ELSE NotFollowUp

FollowUpFromExchange(query, messages, embedding, exchange) ==
    IF exchange.assistant = 0 \/ exchange.user = 0 THEN NotFollowUp
    ELSE IF messages[exchange.assistant].chars < 20 \/ query.chars < 3
    THEN NotFollowUp
    ELSE FollowUpDecision(query, Len(messages),
             CalculateConversationContinuity(query, embedding, Len(messages)))

\* _detect_follow_up_from_messages
DetectFollowUpFromMessages(query, messages, embedding) ==
    FollowUpFromExchange(query, messages, embedding, PreviousExchange(messages))

\* The inputs of the detector.
FollowUpQueries ==
    { [text |-> "ok", words |-> 1, chars |-> 2,
       example |-> FALSE, different |-> FALSE, detail |-> FALSE],
      [text |-> "tell me more", words |-> 3, chars |-> 12,
       example |-> FALSE, different |-> FALSE, detail |-> FALSE],
      [text |-> "give me examples of these", words |-> 5, chars |-> 25,
       example |-> TRUE, different |-> FALSE, detail |-> FALSE],
      [text |-> "can you show me one more example of that", words |-> 9, chars |-> 40,
       example |-> TRUE, different |-> FALSE, detail |-> FALSE],
      [text |-> "which other approaches do teachers of the primary grades use in class",
       words |-> 12, chars |-> 69,
       example |-> FALSE, different |-> TRUE, detail |-> FALSE] }

MessageKinds ==
    { [role |-> "user", chars |-> 40],
      [role |-> "assistant", chars |-> 10],
      [role |-> "assistant", chars |-> 300] }

\* The histories a client sends: user and assistant turns alternate.
Histories ==
    UNION { { m \in [1..n -> MessageKinds] :
                \A i \in 1..(n - 1) : m[i].role # m[i + 1].role } :
            n \in 0..MaxMessages }

Embeddings ==
    { [state |-> "absent"], [state |-> "raising"] }
    \cup [state : {"ok"}, q_similarity : {0, 150, 700}, r_similarity : {0, 150, 700}]

FollowUpInit ==
    /\ index = <<>>
    /\ config = [cap |-> 1, llm_attached |-> FALSE, groq_available |-> FALSE]
    /\ pc = "idle"
    /\ req = NoReq
    /\ out = NoOut
    /\ last = NoLast
    /\ threads = <<>>
    /\ runner = NoRunner

\* Step 2 of process_query: one call of the detector
DetectFollowUp ==
    /\ pc = "idle"
    /\ \E query \in FollowUpQueries, messages \in Histories, embedding \in Embeddings :
          /\ req' = [query |-> query, messages |-> messages, embedding |-> embedding]
          /\ out' = DetectFollowUpFromMessages(query, messages, embedding)
    /\ pc' = "done"
    /\ UNCHANGED <<index, config, last, threads, runner>>

FollowUpNext == DetectFollowUp \/ Finish

FollowUpSpec == FollowUpInit /\ [][FollowUpNext]_vars

(***************************************************************************)
(* The confidence estimate on its own: _calculate_confidence applied to a  *)
(* list of chunks and a complexity class.                                  *)
(***************************************************************************)
MaxConfidenceChunks == 5

Complexities == {"SIMPLE", "MODERATE", "COMPLEX"}

\* Chunks as the estimate reads them: with an enhanced_relevance, or with a
\* similarity_score only.
ScoredChunks ==
    { [enhanced_relevance |-> 450, similarity_score |-> 900],
      [enhanced_relevance |-> 650, similarity_score |-> 100],
      [enhanced_relevance |-> 750, similarity_score |-> 100],
      [similarity_score |-> 550] }

ChunkLists == UNION { [1..n -> ScoredChunks] : n \in 0..MaxConfidenceChunks }

ConfidenceInit ==
    /\ index = <<>>
    /\ config = [cap |-> 1, llm_attached |-> FALSE, groq_available |-> FALSE]
    /\ pc = "idle"
    /\ req = NoReq
    /\ out = NoOut
    /\ last = NoLast
    /\ threads = <<>>
    /\ runner = NoRunner

\* One call of _calculate_confidence
EstimateConfidence ==
    /\ pc = "idle"
    /\ \E chunks \in ChunkLists, query_complexity \in Complexities :
          /\ req' = [chunks |-> chunks, query_complexity |-> query_complexity]
          /\ out' = [confidence |-> CalculateConfidence(chunks, query_complexity)]
    /\ pc' = "done"
    /\ UNCHANGED <<index, config, last, threads, runner>>

ConfidenceNext == EstimateConfidence \/ Finish

ConfidenceSpec == ConfidenceInit /\ [][ConfidenceNext]_vars

(***************************************************************************)
(* namespace_validator.py: validate_query_access.                          *)
(***************************************************************************)
KB_NAMESPACE_MAPPINGS ==
    [ns \in {"kb-esp", "kb-psp", "kb-msp", "kb-ssp"} |->
        CASE ns = "kb-esp" ->
               [grades |-> {"playgroup", "nursery", "lkg", "ukg", "ik1", "ik2", "ik3"},
                grade_numbers |-> {}]
          [] ns = "kb-psp" ->
               [grades |-> {"grade1", "grade2", "grade3", "grade4", "grade5"},
                grade_numbers |-> {1, 2, 3, 4, 5}]
          [] ns = "kb-msp" ->
               [grades |-> {"grade6", "grade7", "grade8", "grade9", "grade10"},
                grade_numbers |-> {6, 7, 8, 9, 10}]
          [] ns = "kb-ssp" ->
               [grades |-> {"grade11", "grade12"},
                grade_numbers |-> {11, 12}]]

\* f"grade{grade_num}" for a grade number between 1 and 12
GradeFormat(grade_num) ==
    <<"grade1", "grade2", "grade3", "grade4", "grade5", "grade6", "grade7",
      "grade8", "grade9", "grade10", "grade11", "grade12">>[grade_num]

\* The grades of a school level named in the query (an if/elif chain: the
\* first level found decides)
SchoolLevelGrades(level) ==
    IF {"primary school", "elementary school"} \cap level # {}
    THEN {"grade1", "grade2", "grade3", "grade4", "grade5"}
    ELSE IF {"middle school", "junior high"} \cap level # {}
    THEN {"grade6", "grade7", "grade8", "grade9", "grade10"}
    ELSE IF {"high school", "senior school", "secondary school"} \cap level # {}
    THEN {"grade11", "grade12"}
    ELSE {}

\* A query is what GRADE_PATTERNS finds in it: the digit strings of the
\* numeric patterns, the early-years names and the school-level phrases.
\* A digit string counts when its number is between 1 and 12; every other
\* match is added as it stands.
DetectGradesInQuery(query) ==
    { GradeFormat(Int_(match)) :
        match \in { m \in query.numeric : Int_(m) >= 1 /\ Int_(m) <= 12 } }
    \cup query.named \cup query.level \cup SchoolLevelGrades(query.level)

AllKbGrades == UNION { KB_NAMESPACE_MAPPINGS[ns].grades : ns \in DOMAIN KB_NAMESPACE_MAPPINGS }

GetAccessibleGrades(namespaces) ==
    UNION { IF namespace \in DOMAIN KB_NAMESPACE_MAPPINGS
            THEN KB_NAMESPACE_MAPPINGS[namespace].grades
            ELSE IF IsEdipedia(namespace) THEN AllKbGrades ELSE {} :
            namespace \in namespaces }

grade_mappings ==
    [g \in {"kindergarten", "pre-k", "pre-kindergarten"} |->
        IF g = "kindergarten" THEN {"ik1", "ik2", "ik3"}
        ELSE {"playgroup", "nursery", "lkg", "ukg"}]

IsGradeAccessible(grade, accessible_grades) ==
    \/ grade \in accessible_grades
    \/ /\ grade \in DOMAIN grade_mappings
       /\ grade_mappings[grade] \cap accessible_grades # {}

InaccessibleGrades(mentioned_grades, accessible_grades) ==
    { grade \in mentioned_grades : ~IsGradeAccessible(grade, accessible_grades) }

ValidateQueryAccess(query, user_namespaces) ==
    [is_valid |->
        \/ DetectGradesInQuery(query) = {}
        \/ InaccessibleGrades(DetectGradesInQuery(query),
                              GetAccessibleGrades(user_namespaces)) = {},
     inaccessible_grades |->
        InaccessibleGrades(DetectGradesInQuery(query),
                           GetAccessibleGrades(user_namespaces))]

\* The queries and users of the model
NumericMatches == { <<3>>, <<7>>, <<1, 1>>, <<1, 3>> }
NamedMatches == {"nursery", "kindergarten", "toddler"}
LevelMatches == {"primary school", "high school"}

ValidatorQueries ==
    [numeric : SUBSET NumericMatches, named : SUBSET NamedMatches,
     level : SUBSET LevelMatches]

UserNamespaces ==
    SUBSET {"kb-esp", "kb-psp", "kb-msp", "kb-ssp",
            "edipedia-k12", "edipedia-preschools", "other"}

ValidatorInit ==
    /\ index = <<>>
    /\ config = [cap |-> 1, llm_attached |-> FALSE, groq_available |-> FALSE]
    /\ pc = "idle"
    /\ req = NoReq
    /\ out = NoOut
    /\ last = NoLast
    /\ threads = <<>>
    /\ runner = NoRunner

\* One call of validate_query_access
ValidateQuery ==
    /\ pc = "idle"
    /\ \E query \in ValidatorQueries, user_namespaces \in UserNamespaces :
          /\ req' = [query |-> query, user_namespaces |-> user_namespaces]
          /\ out' = ValidateQueryAccess(query, user_namespaces)
    /\ pc' = "done"
    /\ UNCHANGED <<index, config, last, threads, runner>>

ValidatorNext == ValidateQuery \/ Finish

ValidatorSpec == ValidatorInit /\ [][ValidatorNext]_vars

(***************************************************************************)
(* app.py: the message history of a chat request (limit_messages,          *)
(* compress_old_context, and their calls in chat and mobile_chat).         *)
(***************************************************************************)
MaxHistory == 22

\* s[start:stop] and s[start:] of a Python list
PyIndex(n, i) == IF i < 0 THEN Max(n + i, 0) ELSE Min(i, n)

PySlice(s, start, stop) == SubSeq(s, PyIndex(Len(s), start) + 1, PyIndex(Len(s), stop))

PyFrom(s, start) == SubSeq(s, PyIndex(Len(s), start) + 1, Len(s))

\* next((msg for msg in messages if msg.get('role') == 'system'), None), as
\* a list of at most one message
RECURSIVE SystemMessage(_)
SystemMessage(messages) ==
    IF messages = <<>> THEN <<>>
    ELSE IF Head(messages).role = "system" THEN <<Head(messages)>>
    ELSE SystemMessage(Tail(messages))

LimitMessages(messages, max_messages) ==
    IF Len(messages) <= max_messages THEN messages
    ELSE IF SystemMessage(messages) # <<>>
    THEN SystemMessage(messages) \o PyFrom(messages, 1 - max_messages)
    ELSE PyFrom(messages, 0 - max_messages)

SummaryMessage(old_messages) ==
    [role |-> "system", content |-> <<"summary", Len(old_messages)>>]

OldMessages(messages) ==
    IF SystemMessage(messages) # <<>> THEN PySlice(messages, 1, 0 - 10)
    ELSE PySlice(messages, 0, Len(messages) - 10)

CompressOldContext(messages, max_length) ==
    IF Len(messages) <= max_length THEN messages
    ELSE IF OldMessages(messages) # <<>>
    THEN SystemMessage(messages) \o <<SummaryMessage(OldMessages(messages))>>
         \o PyFrom(messages, 0 - 10)
    ELSE messages

\* The limits of the two routes: (max_messages, max_length)
HistoryLimits(endpoint) == IF endpoint = "chat" THEN <<20, 30>> ELSE <<15, 20>>

\* The history that the route hands to process_query
HandedMessages(endpoint, raw_messages) ==
    CompressOldContext(LimitMessages(raw_messages, HistoryLimits(endpoint)[1]),
                       HistoryLimits(endpoint)[2])

\* Histories: user and assistant messages in turn, with at most one system
\* message at any place; the content of a message is its place in the list.
RoleAt(i, first, system_at) ==
    IF i = system_at THEN "system"
    ELSE IF i % 2 = 1 THEN first
    ELSE IF first = "user" THEN "assistant" ELSE "user"

RawHistories ==
    { [i \in 1..n |-> [role |-> RoleAt(i, first, system_at), content |-> <<"msg", i>>]] :
        n \in 0..MaxHistory, first \in {"user", "assistant"}, system_at \in 0..MaxHistory }

MaxMessagesValues == {1, 2, 3, 15, 20}

HistoryInit ==
    /\ index = <<>>
    /\ config = [cap |-> 1, llm_attached |-> FALSE, groq_available |-> FALSE]
    /\ pc = "idle"
    /\ req = NoReq
    /\ out = NoOut
    /\ last = NoLast
    /\ threads = <<>>
    /\ runner = NoRunner

\* One call of limit_messages
LimitHistory ==
    /\ pc = "idle"
    /\ \E messages \in RawHistories, max_messages \in MaxMessagesValues :
          /\ req' = [op |-> "limit_messages", messages |-> messages,
                     max_messages |-> max_messages]
          /\ out' = [messages |-> LimitMessages(messages, max_messages)]
    /\ pc' = "done"
    /\ UNCHANGED <<index, config, last, threads, runner>>

\* The history of one request to /api/chat or /api/mobile/chat, up to the
\* call of process_query
ChatHistory ==
    /\ pc = "idle"
    /\ \E raw_messages \in RawHistories, endpoint \in Endpoints :
          /\ req' = [op |-> endpoint, messages |-> raw_messages]
          /\ out' = [messages |-> HandedMessages(endpoint, raw_messages)]
    /\ pc' = "done"
    /\ UNCHANGED <<index, config, last, threads, runner>>

HistoryNext == LimitHistory \/ ChatHistory \/ Finish

HistorySpec == HistoryInit /\ [][HistoryNext]_vars

(***************************************************************************)
(* The selector of process_query on its own: the candidates of the         *)
(* namespaces of a request, merged in the order of the namespaces, each    *)
(* namespace's part sorted by retrieval in descending relevance.           *)
(***************************************************************************)
MaxPart == 2

\* A candidate as _retrieve_relevant_chunks returns it: no 'id' and no
\* 'score' key
Candidate(file_info, namespace, chunk_index, relevance) ==
    [text |-> [fp |-> ChunkIdOf(file_info.filename, chunk_index), len |-> 6000, hits |-> 0],
     metadata |-> [filename |-> file_info.blob_name,
                   chunk_id |-> ChunkIdOf(file_info.filename, chunk_index),
                   namespace |-> namespace],
     similarity_score |-> relevance,
     enhanced_relevance |-> relevance]

CandidatesOf(namespace) ==
    IF namespace = "kb-msp"
    THEN { Candidate(FileB, namespace, i, rel) : i \in 1..2, rel \in {300, 700} }
    ELSE { Candidate(f, namespace, i, rel) :
             f \in {FileC, FileD}, i \in 1..2, rel \in {300, 700} }
         \ { Candidate(FileD, namespace, 2, rel) : rel \in {300, 700} }

\* What retrieval can return for one namespace: different chunks, in
\* descending order of enhanced_relevance
PartsOf(namespace) ==
    { part \in UNION { [1..n -> CandidatesOf(namespace)] : n \in 0..MaxPart } :
        \A i, j \in 1..Len(part) :
            i < j => /\ part[i].metadata.chunk_id # part[j].metadata.chunk_id
                     /\ part[i].enhanced_relevance >= part[j].enhanced_relevance }

SelectorInit ==
    /\ index = <<>>
    /\ config \in { c \in Configs : ~c.llm_attached /\ ~c.groq_available }
    /\ pc = "idle"
    /\ req = NoReq
    /\ out = NoOut
    /\ last = NoLast
    /\ threads = <<>>
    /\ runner = NoRunner

\* The selector step of one request for the namespaces kb-msp, edipedia-k12
Select ==
    /\ pc = "idle"
    /\ \E first \in PartsOf("kb-msp"), second \in PartsOf("edipedia-k12"),
          role \in Roles \cup {"none"} :
          /\ req' = [namespaces |-> <<"kb-msp", "edipedia-k12">>, role |-> role,
                     pool |-> first \o second]
          /\ out' = [selected |-> SelectChunks(first \o second, role, config.cap)]
    /\ pc' = "done"
    /\ UNCHANGED <<index, config, last, threads, runner>>

SelectorNext == Select \/ Finish

SelectorSpec == SelectorInit /\ [][SelectorNext]_vars

(***************************************************************************)
(* The namespaces a request searches: the namespace list of the route      *)
(* (app.py) and step 4 of process_query with _determine_query_namespace.   *)
(***************************************************************************)
MaxSupplied == 2

\* ns.lower().strip() for the names of the model
LowerStrip(ns) ==
    CASE ns = "KB-MSP" -> "kb-msp"
      [] ns = " kb-psp" -> "kb-psp"
      [] OTHER -> ns

\* The route: the valid names of the supplied list, or None (here <<>>)
\* when the list is absent, empty or holds no valid name
ValidatedNamespaces(raw_namespaces) ==
    SelectSeq([i \in 1..Len(raw_namespaces) |-> LowerStrip(raw_namespaces[i])],
              LAMBDA ns : ns \in Range(all_namespaces))

DetermineQueryNamespace(query) ==
    IF query.preschool_score > 0 THEN "edipedia-preschools"
    ELSE IF query.admin_score > query.k12_score /\ query.admin_score > 0
    THEN "edipedia-edifyho"
    ELSE "kb-msp"

\* Step 4 of process_query
SearchNamespaces(query, namespaces) ==
    IF namespaces # <<>> THEN namespaces
    ELSE <<DetermineQueryNamespace(query)>>

\* The keyword counts of the queries of the model
NamespaceQueries == [preschool_score : 0..1, k12_score : 0..2, admin_score : 0..2]

SuppliedNames == {"kb-psp", " kb-psp", "KB-MSP", "edipedia-k12", "kb-xyz", "library"}

\* A request carries a list of names or none (absent)
SuppliedLists ==
    { [given |-> FALSE, names |-> <<>>] }
    \cup { [given |-> TRUE, names |-> names] :
             names \in UNION { [1..n -> SuppliedNames] : n \in 0..MaxSupplied } }

NamespaceInit ==
    /\ index = <<>>
    /\ config = [cap |-> 1, llm_attached |-> FALSE, groq_available |-> FALSE]
    /\ pc = "idle"
    /\ req = NoReq
    /\ out = NoOut
    /\ last = NoLast
    /\ threads = <<>>
    /\ runner = NoRunner

\* One request, up to the namespace loop of process_query
ResolveNamespaces ==
    /\ pc = "idle"
    /\ \E query \in NamespaceQueries, supplied \in SuppliedLists,
          endpoint \in Endpoints :
          /\ req' = [endpoint |-> endpoint, query |-> query, supplied |-> supplied]
          /\ out' = [namespaces |-> ValidatedNamespaces(supplied.names),
                     search_namespaces |->
                        SearchNamespaces(query, ValidatedNamespaces(supplied.names))]
    /\ pc' = "done"
    /\ UNCHANGED <<index, config, last, threads, runner>>

NamespaceNext == ResolveNamespaces \/ Finish

NamespaceSpec == NamespaceInit /\ [][NamespaceNext]_vars

(***************************************************************************)
(* enhanced_kb_processor.py: process_blob_created, the update of one       *)
(* source document.  Here index is the set of vectors of namespace kb-psp; *)
(* a document has at most 100 chunks, so that _upload_to_pinecone upserts  *)
(* them in one batch.                                                      *)
(***************************************************************************)
MaxVersion == 2
MaxDocChunks == 2

FileE == [filename |-> "e.pdf", blob_name |-> "kb/12/grade2/e.pdf", grade |-> "grade2"]

\* The vectors of the chunks 0..n-1 of a version of a document
DocVectors(file_info, version, n) ==
    { [id |-> ChunkIdOf(file_info.filename, i),
       original_filename |-> file_info.filename,
       filename |-> file_info.blob_name,
       version |-> version] : i \in 0..(n - 1) }

\* delete_from_pinecone: delete by original_filename; an exception of the
\* index is logged and False is returned
DeleteFromPinecone(idx, blob_name, raises) ==
    IF raises THEN idx
    ELSE { v \in idx : v.original_filename # blob_name.filename }

\* _upload_to_pinecone: upsert by id; an exception is logged and False is
\* returned
UpsertChunks(idx, chunks, raises) ==
    IF raises THEN idx
    ELSE { v \in idx : \A c \in chunks : c.id # v.id } \cup chunks

UpdateInit ==
    /\ index = {}
    /\ config = [cap |-> 1, llm_attached |-> FALSE, groq_available |-> FALSE]
    /\ pc = "idle"
    /\ req = NoReq
    /\ out = NoOut
    /\ last = NoLast
    /\ threads = <<>>
    /\ runner = NoRunner

\* process_blob_created for a version of a document with n chunks; neither
\* return value of the two index calls is looked at
ProcessBlobCreated ==
    /\ pc = "idle"
    /\ \E file_info \in {FileA, FileE}, version \in 1..MaxVersion,
          n \in 0..MaxDocChunks, delete_raises \in BOOLEAN, upload_raises \in BOOLEAN :
          /\ req' = [file_info |-> file_info, version |-> version, chunks |-> n,
                     delete_raises |-> delete_raises, upload_raises |-> upload_raises]
          /\ IF n = 0
             THEN /\ index' = index
                  /\ out' = [success |-> FALSE, chunks |-> 0, error |-> "No chunks created"]
             ELSE /\ index' = UpsertChunks(
                                  DeleteFromPinecone(index, file_info, delete_raises),
                                  DocVectors(file_info, version, n), upload_raises)
                  /\ out' = [success |-> TRUE, chunks |-> n, error |-> "None"]
    /\ pc' = "done"
    /\ UNCHANGED <<config, last, threads, runner>>

UpdateNext == ProcessBlobCreated \/ Finish

UpdateSpec == UpdateInit /\ [][UpdateNext]_vars

(***************************************************************************)
(* run_kb_processing_enhanced.py: the bulk ingestion runner and its        *)
(* progress tracker, over several runs of the script.  runner holds        *)
(*   progress_file, backup_file   the two files on disk                    *)
(*   processed_files, total_processed   the tracker of the run             *)
(*   files_to_process   the files the run has still to process             *)
(*   current, outcome   the file processed last and how it ended           *)
(*   ever_saved   the files that a written progress file has held          *)
(*   failed       the files whose processing has failed                    *)
(*   again        whether the file processed last was in ever_saved        *)
(***************************************************************************)
MaxRuns == 3

save_interval == 5

\* The blobs under kb/12/, in the order of their size
Blobs == <<"kb/12/grade1/a.pdf", "kb/12/grade1/b.pdf", "kb/12/grade2/c.docx">>

NoFile == [exists |-> FALSE, processed_files |-> {}]

\* load_progress: the progress file, or else its backup, or else nothing
LoadProgress(r) ==
    IF r.progress_file.exists THEN r.progress_file.processed_files
    ELSE IF r.backup_file.exists THEN r.backup_file.processed_files
    ELSE {}

\* save_progress once it is past its time test: the backup copy, then the
\* write and the rename.  An exception at the copy leaves both files, one
\* at the write leaves the progress file; both are logged.
SaveFailures == {"none", "copy", "write"}

SaveProgress(r, fails) ==
    IF fails = "copy" THEN r
    ELSE IF fails = "write"
    THEN [r EXCEPT !.backup_file = IF r.progress_file.exists THEN r.progress_file ELSE @]
    ELSE [r EXCEPT !.backup_file = IF r.progress_file.exists THEN r.progress_file ELSE @,
                   !.progress_file = [exists |-> TRUE, processed_files |-> r.processed_files],
                   !.ever_saved = @ \cup r.processed_files]

\* A run that lists every blob, processed or not
FilesToProcessAll(processed_files) == Blobs

\* run: the blobs that the tracker does not hold, sorted by size
FilesToProcess(processed_files) ==
    SelectSeq(Blobs, LAMBDA blob : blob \notin processed_files)

\* EnhancedProgressTracker.__init__ and the scan of run
Loaded(r) ==
    [r EXCEPT !.pc = "running",
              !.runs = @ + 1,
              !.processed_files = LoadProgress(r),
              !.total_processed = Cardinality(LoadProgress(r)),
              !.files_to_process = FilesToProcess(LoadProgress(r)),
              !.current = "none",
              !.outcome = "none",
              !.again = FALSE]

\* load_progress restores the progress file when it read the backup
Restored(r, fails) ==
    IF ~r.progress_file.exists /\ r.backup_file.exists
    THEN SaveProgress(Loaded(r), fails)
    ELSE Loaded(r)

\* The time since the last save when mark_processed runs
Elapsed == {"under_10", "under_30", "over_30"}

\* mark_processed: add the file, and save when the interval or the time
\* says so and save_progress finds the last save 10 seconds old
Marked(r, file_path) ==
    [r EXCEPT !.processed_files = @ \cup {file_path},
              !.total_processed = @ + 1]

MarkProcessed(r, file_path, elapsed, fails) ==
    IF /\ (Marked(r, file_path).total_processed % save_interval = 0 \/ elapsed = "over_30")
       /\ elapsed # "under_10"
    THEN SaveProgress(Marked(r, file_path), fails)
    ELSE Marked(r, file_path)

\* The finally clause of run: save_progress(force=True), and the script ends
Finalised(r, fails) ==
    [SaveProgress(r, fails) EXCEPT !.pc = "stopped", !.files_to_process = <<>>]

\* process_file_safely for the first file of the list
Processed(r, outcome) ==
    [r EXCEPT !.current = Head(r.files_to_process),
              !.outcome = outcome,
              !.again = Head(r.files_to_process) \in r.ever_saved,
              !.failed = IF outcome \in {"no_chunks", "exception"}
                         THEN @ \cup {Head(r.files_to_process)} ELSE @,
              !.files_to_process = Tail(@)]

ProcessFileSafely(r, outcome, elapsed, fails) ==
    IF outcome = "no_resources"
    THEN Finalised(Processed(r, outcome), fails)
    ELSE MarkProcessed(Processed(r, outcome), Head(r.files_to_process), elapsed, fails)

RunnerInit ==
    /\ index = <<>>
    /\ config = [cap |-> 1, llm_attached |-> FALSE, groq_available |-> FALSE]
    /\ pc = "idle"
    /\ req = NoReq
    /\ out = NoOut
    /\ last = NoLast
    /\ threads = <<>>
    /\ runner = [pc |-> "stopped", runs |-> 0,
                 progress_file |-> NoFile, backup_file |-> NoFile,
                 processed_files |-> {}, total_processed |-> 0,
                 files_to_process |-> <<>>, current |-> "none", outcome |-> "none",
                 ever_saved |-> {}, again |-> FALSE, failed |-> {}]

\* The script is started: the tracker loads the progress, run lists the files
StartRun ==
    /\ runner.pc = "stopped"
    /\ runner.runs < MaxRuns
    /\ \E fails \in SaveFailures : runner' = Restored(runner, fails)
    /\ UNCHANGED <<index, config, pc, req, out, last, threads>>

\* One turn of the loop of run
ProcessFile ==
    /\ runner.pc = "running"
    /\ runner.files_to_process # <<>>
    /\ \E outcome \in {"success", "no_chunks", "exception", "no_resources"},
          elapsed \in Elapsed, fails \in SaveFailures :
          runner' = ProcessFileSafely(runner, outcome, elapsed, fails)
    /\ UNCHANGED <<index, config, pc, req, out, last, threads>>

\* The loop ends, at the end of the list or at a signal
EndRun ==
    /\ runner.pc = "running"
    /\ \E fails \in SaveFailures : runner' = Finalised(runner, fails)
    /\ UNCHANGED <<index, config, pc, req, out, last, threads>>

\* The process is killed: nothing is saved
Killed ==
    /\ runner.pc = "running"
    /\ runner' = [runner EXCEPT !.pc = "stopped", !.files_to_process = <<>>]
    /\ UNCHANGED <<index, config, pc, req, out, last, threads>>

RunnerNext == StartRun \/ ProcessFile \/ EndRun \/ Killed

RunnerSpec == RunnerInit /\ [][RunnerNext]_vars

(***************************************************************************)
(* Properties.                                                             *)
(***************************************************************************)
Answered == pc = "done" /\ out.path = "answered"
Retrieved == pc = "done" /\ out.path \in {"answered", "no_results"}
Standard == req.role # "admin"

Filenames(chunks) == {ChunkFilename(chunks[i]) : i \in 1..Len(chunks)}
Occurrences(chunks, x) == Cardinality({i \in 1..Len(chunks) : chunks[i] = x})
StoredNamespace(chunk) == DictGet(DictGet(chunk, "metadata", <<>>), "namespace", "")

\* C1: in standard mode, a pool with at least cap distinct filenames yields
\* exactly cap selected chunks, no two of them from the same file.
C1_DedupDiversity ==
    (Retrieved /\ Standard /\ Cardinality(Filenames(out.pool)) >= config.cap)
    => /\ Len(out.selected) = config.cap
       /\ \A i, j \in 1..Len(out.selected) :
             i # j => ChunkFilename(out.selected[i]) # ChunkFilename(out.selected[j])

\* C2: in standard mode, a pool with fewer than cap distinct filenames but
\* at least cap candidates yields exactly cap selected chunks, their ids
\* pairwise distinct.
C2_DedupBackfill ==
    (Retrieved /\ Standard
       /\ Cardinality(Filenames(out.pool)) < config.cap
       /\ Len(out.pool) >= config.cap)
    => /\ Len(out.selected) = config.cap
       /\ \A i, j \in 1..Len(out.selected) :
             i # j => ChunkId(out.selected[i]) # ChunkId(out.selected[j])

\* C3: in admin mode the selected chunks are the pool reordered: same
\* size, every candidate as often as in the pool.
C3_PrivilegedBypass ==
    (Retrieved /\ req.role = "admin")
    => /\ Len(out.selected) = Len(out.pool)
       /\ \A i \in 1..Len(out.pool) :
             Occurrences(out.selected, out.pool[i]) = Occurrences(out.pool, out.pool[i])

\* An admin request whose pool is larger than cap and holds one chunk twice
C3_Witness ==
    /\ Retrieved /\ req.role = "admin"
    /\ Len(out.pool) > config.cap
    /\ \E i, j \in 1..Len(out.pool) :
          i # j /\ out.pool[i].metadata.chunk_id = out.pool[j].metadata.chunk_id
    /\ Len(out.selected) = Len(out.pool)

C5_ContextBudget ==
    Answered
    => \/ ContextLen(out.context) <= max_context_for_comprehensive
       \/ /\ Len(out.context) = 1
          /\ out.context[1].text.len > max_context_for_comprehensive

\* C6: in the assembled context, chunks of one file appear in
\* non-decreasing order of their chunk_index.
C6_ContextOrdering ==
    Answered
    => \A i, j \in 1..Len(out.context) :
          (i < j /\ ChunkFilename(out.context[i]) = ChunkFilename(out.context[j]))
          => Int_(out.context[i].metadata.chunk_index)
             <= Int_(out.context[j].metadata.chunk_index)

\* C7: every selected chunk of a request restricted to a list of namespaces
\* was stored in one of the namespaces of that list.
C7_NamespaceBoundary ==
    Retrieved
    => \A i \in 1..Len(out.selected) :
          StoredNamespace(out.selected[i]) \in Range(req.namespaces)

\* C8: when retrieval yields no accepted chunk, the result is the templated
\* no-results answer with 0 chunks and the empty-evidence confidence, and it
\* is not an error response.
C8_EmptyEvidence ==
    (pc = "done" /\ out.path = "no_results")
    => /\ out.result.response.kind = "no_results"
       /\ out.result.chunks_used = 0
       /\ out.result.confidence \in {0, 300}
       /\ ~out.result.error

\* C9: the answer text never contains the text of a caught exception, and a
\* failed request reports a low or zero confidence.
C9_NoRawException ==
    pc = "done"
    => /\ ~out.result.response.exc
       /\ out.result.error => out.result.confidence <= 300

\* C10: when the generation gateway is unavailable, errors or returns text
\* that fails validation, the answer is the extraction from the context.
GatewayFailed ==
    \/ ~config.llm_attached
    \/ ~config.groq_available
    \/ req.groq \in {"invalid", "none"}

C10_ExtractionFallback ==
    (Answered /\ GatewayFailed)
    => out.result.response.kind = "context_extraction"

\* C11: a request whose query is missing or empty is rejected before any
\* retrieval: process_query does not reach its retrieval step for it.
C11_MalformedRejected ==
    (pc = "done" /\ req.query.given \in {"missing", "empty"})
    => out.path = "rejected"

\* The pool retrieval returns when no index call fails, without the chunks
\* of the strategies in down.
PoolWithout(down) ==
    IF StrategiesOf(req.query) \subseteq down THEN <<>>
    ELSE SelectSeq(AllRelevantChunks(SeenBy(req.query, index), {}, req.query,
                                     req.namespaces),
             LAMBDA chunk : DictGet(chunk, "search_strategy", "PRIMARY") \notin down)

\* C12: when the index calls of a retrieval strategy fail, that strategy
\* contributes no candidate and the candidates of the other strategies are
\* returned as they are without the failure; retrieval returns a list.
C12_StrategyFailureLocal ==
    (pc = "done" /\ Retrieved /\ req.down # {})
    => out.pool = PoolWithout(req.down)

C12_Witness ==
    /\ pc = "done" /\ Retrieved
    /\ req.down = {"FORM"}
    /\ out.pool # <<>>

\* C13: the result of process_query for a request is the same under every
\* interleaving with the other calls on the instance: what a thread returns
\* is what the request yields when it runs alone.
C13_NoSharedRequestState ==
    \A t \in Threads :
        threads[t].pc = "done"
        => threads[t].out.result = HandleChat(index, config, threads[t].req).result

\* The chunks of a list, as the set of the chunk ids in their metadata
ChunkIds(chunks) == {chunks[i].metadata.chunk_id : i \in 1..Len(chunks)}

\* C14: the set of chunks retrieval returns for a query and a namespace is
\* the same whatever the order in which the strategies run and are merged.
C14_OrderIndependent ==
    pc = "done" => ChunkIds(out.returned) = ChunkIds(out.reordered)

\* C15: with a history of fewer than 2 messages the detector returns
\* (False, None) for every query.
C15_ShortHistory ==
    (pc = "done" /\ Len(req.messages) < 2) => out = NotFollowUp

\* One assistant message, long enough, and a query close to it
C15_Witness ==
    /\ pc = "done" /\ Len(req.messages) = 1
    /\ req.messages[1] = [role |-> "assistant", chars |-> 300]
    /\ req.query.text = "give me examples of these"
    /\ req.embedding.state = "ok" /\ req.embedding.r_similarity = 700
    /\ out = NotFollowUp

\* C16: when the embedding provider is absent or raises, the detector
\* returns (False, None) for every query and every history.
C16_NoEmbeddingNoFollowUp ==
    (pc = "done" /\ req.embedding.state \in {"absent", "raising"})
    => out = NotFollowUp

\* A long history ending in an exchange, a short query, a raising provider
C16_Witness ==
    /\ pc = "done" /\ req.embedding.state = "raising"
    /\ Len(req.messages) = MaxMessages
    /\ PreviousExchange(req.messages).user # 0
    /\ req.messages[PreviousExchange(req.messages).assistant].chars = 300
    /\ req.query.text = "tell me more"
    /\ out = NotFollowUp

\* C17: the decision threshold never increases with the number of messages:
\* for all m1 <= m2, threshold(m2) <= threshold(m1).
C17_ThresholdMonotone ==
    pc = "done"
    => \A m1 \in 0..Len(req.messages) :
          FinalThreshold(Len(req.messages)) <= FinalThreshold(m1)

\* A history long enough for the boost to reach its cap of 0.15
C17_Witness ==
    /\ pc = "done" /\ Len(req.messages) >= 8
    /\ FinalThreshold(Len(req.messages)) = 100
    /\ FinalThreshold(2) = 210

\* C18: for a history of one user question and one assistant answer and the
\* query "give me examples of these", a positive detection carries
\* query_focus "examples".
C18_ExamplesFocus ==
    (/\ pc = "done"
     /\ req.query.text = "give me examples of these"
     /\ Len(req.messages) = 2
     /\ req.messages[1].role = "user" /\ req.messages[2].role = "assistant"
     /\ out.is_follow_up)
    => out.follow_up_context.query_focus = "examples"

\* C19: the confidence estimate lies in [0.1, 1.0] for every non-empty
\* chunk list and every complexity class, and is exactly 0.3 for an empty
\* chunk list.
C19_ConfidenceRange ==
    pc = "done"
    => IF req.chunks = <<>>
       THEN out.confidence = 300
       ELSE out.confidence >= 100 /\ out.confidence <= 1000

\* The empty list, and five chunks of high relevance for a simple query
C19_WitnessEmpty == pc = "done" /\ req.chunks = <<>> /\ out.confidence = 300

C19_Witness ==
    /\ pc = "done" /\ Len(req.chunks) >= 5
    /\ req.query_complexity = "SIMPLE"
    /\ out.confidence = 900

\* The classes harder than a class
Harder(query_complexity) ==
    CASE query_complexity = "SIMPLE" -> {"MODERATE", "COMPLEX"}
      [] query_complexity = "MODERATE" -> {"COMPLEX"}
      [] OTHER -> {}

\* C20: for a fixed non-empty chunk set the estimate does not rise with the
\* difficulty of the query: SIMPLE >= MODERATE >= COMPLEX.
C20_ConfidenceMonotone ==
    (pc = "done" /\ req.chunks # <<>>)
    => \A harder \in Harder(req.query_complexity) :
          out.confidence >= CalculateConfidence(req.chunks, harder)

\* The grade numbers between 1 and 12 that the query of the request names
NamedNumbers == { Int_(m) : m \in { x \in req.query.numeric : Int_(x) >= 1 /\ Int_(x) <= 12 } }

InSomeRange(n) ==
    \E ns \in req.user_namespaces : n \in KB_NAMESPACE_MAPPINGS[ns].grade_numbers

KbOnly == pc = "done" /\ req.user_namespaces \subseteq DOMAIN KB_NAMESPACE_MAPPINGS

\* C21: for a user who holds only kb-* namespaces and a query that
\* names a numeric grade N between 1 and 12, access is granted if and only
\* if N lies in the grade range of at least one of the user's namespaces.
C21_GradeInRange ==
    KbOnly => \A n \in NamedNumbers : out.is_valid <=> InSomeRange(n)

\* C22: a user whose namespace list includes an edipedia-* namespace is
\* granted access for every query, whatever grade, early-years term or
\* school level the query mentions.
C22_EdipediaGranted ==
    (pc = "done" /\ \E ns \in req.user_namespaces : IsEdipedia(ns))
    => out.is_valid

\* C23: however long the conversation history supplied with a chat request
\* is, the history handed to the chatbot is truncated to the last 10
\* messages.
C23_LastTenMessages ==
    (pc = "done" /\ req.op \in Endpoints)
    => out.messages = PyFrom(req.messages, 0 - 10)

\* a is b with some of its elements left out
RECURSIVE IsSubsequence(_, _)
IsSubsequence(a, b) ==
    IF a = <<>> THEN TRUE
    ELSE IF b = <<>> THEN FALSE
    ELSE IF Head(a) = Head(b) THEN IsSubsequence(Tail(a), Tail(b))
    ELSE IsSubsequence(a, Tail(b))

\* C29: for any message list and any max_messages >= 1, limit_messages
\* returns at most max_messages messages, the last of which is the most
\* recent input message, and its output is a subsequence of its input.
C29_LimitMessages ==
    (pc = "done" /\ req.op = "limit_messages")
    => /\ Len(out.messages) <= req.max_messages
       /\ req.messages # <<>>
          => /\ out.messages # <<>>
             /\ out.messages[Len(out.messages)] = req.messages[Len(req.messages)]
       /\ IsSubsequence(out.messages, req.messages)

\* C24: in standard mode two candidates that are different chunks are never
\* treated as duplicates of one another: a pool of n chunks of pairwise
\* different chunk identity yields min(n, cap) selected chunks.
C24_DistinctChunksKept ==
    (Retrieved /\ Standard
       /\ \A i, j \in 1..Len(out.pool) :
             i # j => out.pool[i].metadata.chunk_id # out.pool[j].metadata.chunk_id)
    => Len(out.selected) = Min(Len(out.pool), config.cap)

\* The relevance score that retrieval gives a candidate
Relevance(chunk) ==
    DictGet(chunk, "enhanced_relevance", DictGet(chunk, "similarity_score", 0))

\* C25: the selector walks the candidates in descending order of their
\* relevance score: in standard mode the first chunk accepted is a
\* highest-scored candidate of the whole pool, and the accepted chunks are
\* in non-increasing score order.
C25_DescendingScoreOrder ==
    (pc = "done" /\ Standard /\ Len(out.selected) > 0)
    => /\ \A i \in 1..Len(req.pool) :
             Relevance(out.selected[1]) >= Relevance(req.pool[i])
       /\ \A i, j \in 1..Len(out.selected) :
             i < j => Relevance(out.selected[i]) >= Relevance(out.selected[j])

\* The chunk identities of a list of candidates
PoolIds(chunks) == { chunks[i].metadata.chunk_id : i \in 1..Len(chunks) }

\* C26: two candidates that have different ids but identical text are both
\* kept through retrieval: when one of two stored chunks of one namespace
\* with the same text is in the pool, the other one is too.
C26_IdenticalTextKept ==
    Retrieved
    => \A i, j \in 1..Len(index) :
          (/\ index[i].id # index[j].id
           /\ index[i].namespace = index[j].namespace
           /\ index[i].metadata.text = index[j].metadata.text
           /\ index[i].id \in PoolIds(out.pool))
          => index[j].id \in PoolIds(out.pool)

\* C27: if a chat request supplies a namespace list, every namespace
\* searched for that request is a member of the supplied list (its names
\* compared in lower case, without blanks around them), including when none
\* of the supplied names is a valid namespace.
C27_SearchedWithinSupplied ==
    (pc = "done" /\ req.supplied.given /\ req.supplied.names # <<>>)
    => \A i \in 1..Len(out.search_namespaces) :
          out.search_namespaces[i]
             \in { LowerStrip(req.supplied.names[k]) : k \in 1..Len(req.supplied.names) }

\* C28: whenever the update of a source document reports success, the
\* namespace holds exactly the complete set of the new version's chunks for
\* that document.
C28_DeleteThenReinsert ==
    (pc = "done" /\ out.success)
    => { v \in index : v.filename = req.file_info.blob_name }
       = DocVectors(req.file_info, req.version, req.chunks)

====
